---- MODULE Spec2Model ----
(***************************************************************************)
(* Model of src/normalize_vi.py: VietnameseTextNormalizer.                 *)
(*                                                                         *)
(* A Python str is a sequence of characters; each character is a one-      *)
(* character string.  A character that cannot be written in a string of    *)
(* this language is written as its code point, "U+" and four hexadecimal   *)
(* digits at least, so for two characters used below:                      *)
(*   "U+0103"  LATIN SMALL LETTER A WITH BREVE (in nam, lam, tram)         *)
(*   "U+0663"  ARABIC-INDIC DIGIT THREE (a decimal digit that is not ASCII)*)
(* The character classes hold every character from U+0080 on under its     *)
(* code point, and the Latin and Greek letters also as written.            *)
(* A Python int is kept as its sign and decimal digits (arbitrary          *)
(* precision); values below 1000 are passed on as integers.                *)
(* None and a raised exception are the one-element sequences PyNone,       *)
(* KeyError and ValueError, which are no text (their element is no         *)
(* character).                                                             *)
(***************************************************************************)
EXTENDS Integers, Sequences, FiniteSets, TLC

VARIABLES pc, input, text, ret

vars == <<pc, input, text, ret>>

\* ------------------------------------------------------------------------
\* Python values that are not text
PyNone == <<"None">>
KeyError == <<"KeyError">>
ValueError == <<"ValueError">>

IsRaise(v) == v = KeyError \/ v = ValueError

\* ------------------------------------------------------------------------
\* A character by its code point: "U+" and the code point in hexadecimal,
\* four digits at least
HexDigit == <<"0", "1", "2", "3", "4", "5", "6", "7", "8", "9", "A", "B", "C", "D", "E", "F">>

RECURSIVE Hex(_, _)
Hex(n, width) == IF n = 0 /\ width <= 0 THEN "" ELSE Hex(n \div 16, width - 1) \o HexDigit[(n % 16) + 1]

HexName(n) == "U+" \o Hex(n, 4)

\* the characters of a set of code point ranges <<first, last>>
Names(ranges) == {HexName(n) : n \in UNION {r[1]..r[2] : r \in ranges}}

\* ------------------------------------------------------------------------
\* Character classes (str.isalpha, str.isdigit, str.isspace and re's \d, \s,
\* \w), from the Unicode 14.0.0 tables of CPython 3.11.  The range tables
\* hold the code points from U+0080 on.
AsciiDigits == {"0", "1", "2", "3", "4", "5", "6", "7", "8", "9"}

\* str(d) for d in 0..9
DigitChar(d) == CASE d = 0 -> "0" [] d = 1 -> "1" [] d = 2 -> "2" [] d = 3 -> "3" [] d = 4 -> "4" [] d = 5 -> "5" [] d = 6 -> "6" [] d = 7 -> "7" [] d = 8 -> "8" [] d = 9 -> "9"

\* str.isdecimal (category Nd); every range is made of runs of the digits
\* 0 to 9 in order
DecimalRanges == {
  <<1632, 1641>>, <<1776, 1785>>, <<1984, 1993>>, <<2406, 2415>>,
  <<2534, 2543>>, <<2662, 2671>>, <<2790, 2799>>, <<2918, 2927>>,
  <<3046, 3055>>, <<3174, 3183>>, <<3302, 3311>>, <<3430, 3439>>,
  <<3558, 3567>>, <<3664, 3673>>, <<3792, 3801>>, <<3872, 3881>>,
  <<4160, 4169>>, <<4240, 4249>>, <<6112, 6121>>, <<6160, 6169>>,
  <<6470, 6479>>, <<6608, 6617>>, <<6784, 6793>>, <<6800, 6809>>,
  <<6992, 7001>>, <<7088, 7097>>, <<7232, 7241>>, <<7248, 7257>>,
  <<42528, 42537>>, <<43216, 43225>>, <<43264, 43273>>, <<43472, 43481>>,
  <<43504, 43513>>, <<43600, 43609>>, <<44016, 44025>>, <<65296, 65305>>,
  <<66720, 66729>>, <<68912, 68921>>, <<69734, 69743>>, <<69872, 69881>>,
  <<69942, 69951>>, <<70096, 70105>>, <<70384, 70393>>, <<70736, 70745>>,
  <<70864, 70873>>, <<71248, 71257>>, <<71360, 71369>>, <<71472, 71481>>,
  <<71904, 71913>>, <<72016, 72025>>, <<72784, 72793>>, <<73040, 73049>>,
  <<73120, 73129>>, <<92768, 92777>>, <<92864, 92873>>, <<93008, 93017>>,
  <<120782, 120831>>, <<123200, 123209>>, <<123632, 123641>>,
  <<125264, 125273>>, <<130032, 130041>>
}

\* re \d on a str pattern, and the digits int() accepts
DecimalDigits == AsciiDigits \cup Names(DecimalRanges)

\* str.isdigit and not str.isdecimal: superscripts, circled digits, ...
DigitRanges == {
  <<178, 179>>, <<185, 185>>, <<4969, 4977>>, <<6618, 6618>>, <<8304, 8304>>,
  <<8308, 8313>>, <<8320, 8329>>, <<9312, 9320>>, <<9332, 9340>>,
  <<9352, 9360>>, <<9450, 9450>>, <<9461, 9469>>, <<9471, 9471>>,
  <<10102, 10110>>, <<10112, 10120>>, <<10122, 10130>>, <<68160, 68163>>,
  <<69216, 69224>>, <<69714, 69722>>, <<127232, 127242>>
}

Digits == DecimalDigits \cup {"¹", "²", "³"} \cup Names(DigitRanges)

\* str.isnumeric and neither str.isdigit nor str.isalpha: fractions, ...
NumericRanges == {
  <<188, 190>>, <<2548, 2553>>, <<2930, 2935>>, <<3056, 3058>>,
  <<3192, 3198>>, <<3416, 3422>>, <<3440, 3448>>, <<3882, 3891>>,
  <<4978, 4988>>, <<5870, 5872>>, <<6128, 6137>>, <<8528, 8578>>,
  <<8581, 8585>>, <<9321, 9331>>, <<9341, 9351>>, <<9361, 9371>>,
  <<9451, 9460>>, <<9470, 9470>>, <<10111, 10111>>, <<10121, 10121>>,
  <<10131, 10131>>, <<11517, 11517>>, <<12295, 12295>>, <<12321, 12329>>,
  <<12344, 12346>>, <<12690, 12693>>, <<12832, 12841>>, <<12872, 12879>>,
  <<12881, 12895>>, <<12928, 12937>>, <<12977, 12991>>, <<42726, 42735>>,
  <<43056, 43061>>, <<65799, 65843>>, <<65856, 65912>>, <<65930, 65931>>,
  <<66273, 66299>>, <<66336, 66339>>, <<66369, 66369>>, <<66378, 66378>>,
  <<66513, 66517>>, <<67672, 67679>>, <<67705, 67711>>, <<67751, 67759>>,
  <<67835, 67839>>, <<67862, 67867>>, <<68028, 68029>>, <<68032, 68047>>,
  <<68050, 68095>>, <<68164, 68168>>, <<68221, 68222>>, <<68253, 68255>>,
  <<68331, 68335>>, <<68440, 68447>>, <<68472, 68479>>, <<68521, 68527>>,
  <<68858, 68863>>, <<69225, 69246>>, <<69405, 69414>>, <<69457, 69460>>,
  <<69573, 69579>>, <<69723, 69733>>, <<70113, 70132>>, <<71482, 71483>>,
  <<71914, 71922>>, <<72794, 72812>>, <<73664, 73684>>, <<74752, 74862>>,
  <<93019, 93025>>, <<93824, 93846>>, <<119520, 119539>>, <<119648, 119672>>,
  <<125127, 125135>>, <<126065, 126123>>, <<126125, 126127>>,
  <<126129, 126132>>, <<126209, 126253>>, <<126255, 126269>>,
  <<127243, 127244>>
}

Numerics == {"¼", "½", "¾"} \cup Names(NumericRanges)

AsciiLetters == {"a", "b", "c", "d", "e", "f", "g", "h", "i", "j", "k", "l", "m", "n", "o", "p", "q", "r", "s", "t", "u", "v", "w", "x", "y", "z", "A", "B", "C", "D", "E", "F", "G", "H", "I", "J", "K", "L", "M", "N", "O", "P", "Q", "R", "S", "T", "U", "V", "W", "X", "Y", "Z"}

\* the letters of Latin-1, Latin Extended-B, Greek and Latin Extended
\* Additional that a string of this language can hold
WrittenLetters == {
  "ª", "µ", "º", "À", "Á", "Â", "Ã", "Ä", "Å", "Æ", "Ç", "È", "É", "Ê", "Ë",
  "Ì", "Í", "Î", "Ï", "Ð", "Ñ", "Ò", "Ó", "Ô", "Õ", "Ö", "Ø", "Ù", "Ú", "Û",
  "Ü", "Ý", "Þ", "ß", "à", "á", "â", "ã", "ä", "å", "æ", "ç", "è", "é", "ê",
  "ë", "ì", "í", "î", "ï", "ð", "ñ", "ò", "ó", "ô", "õ", "ö", "ø", "ù", "ú",
  "û", "ü", "ý", "þ", "ÿ", "ƀ", "Ɓ", "Ƃ", "ƃ", "Ƅ", "ƅ", "Ɔ", "Ƈ", "ƈ", "Ɖ",
  "Ɗ", "Ƌ", "ƌ", "ƍ", "Ǝ", "Ə", "Ɛ", "Ƒ", "ƒ", "Ɠ", "Ɣ", "ƕ", "Ɩ", "Ɨ", "Ƙ",
  "ƙ", "ƚ", "ƛ", "Ɯ", "Ɲ", "ƞ", "Ɵ", "Ơ", "ơ", "Ƣ", "ƣ", "Ƥ", "ƥ", "Ʀ", "Ƨ",
  "ƨ", "Ʃ", "ƪ", "ƫ", "Ƭ", "ƭ", "Ʈ", "Ư", "ư", "Ʊ", "Ʋ", "Ƴ", "ƴ", "Ƶ", "ƶ",
  "Ʒ", "Ƹ", "ƹ", "ƺ", "ƻ", "Ƽ", "ƽ", "ƾ", "ƿ", "ǀ", "ǁ", "ǂ", "ǃ", "Ǆ", "ǅ",
  "ǆ", "Ǉ", "ǈ", "ǉ", "Ǌ", "ǋ", "ǌ", "Ǎ", "ǎ", "Ǐ", "ǐ", "Ǒ", "ǒ", "Ǔ", "ǔ",
  "Ǖ", "ǖ", "Ǘ", "ǘ", "Ǚ", "ǚ", "Ǜ", "ǜ", "ǝ", "Ǟ", "ǟ", "Ǡ", "ǡ", "Ǣ", "ǣ",
  "Ǥ", "ǥ", "Ǧ", "ǧ", "Ǩ", "ǩ", "Ǫ", "ǫ", "Ǭ", "ǭ", "Ǯ", "ǯ", "ǰ", "Ǳ", "ǲ",
  "ǳ", "Ǵ", "ǵ", "Ƕ", "Ƿ", "Ǹ", "ǹ", "Ǻ", "ǻ", "Ǽ", "ǽ", "Ǿ", "ǿ", "Ά", "Έ",
  "Ή", "Ί", "Ό", "Ύ", "Ώ", "ΐ", "Α", "Β", "Γ", "Δ", "Ε", "Ζ", "Η", "Θ", "Ι",
  "Κ", "Λ", "Μ", "Ν", "Ξ", "Ο", "Π", "Ρ", "Σ", "Τ", "Υ", "Φ", "Χ", "Ψ", "Ω",
  "Ϊ", "Ϋ", "ά", "έ", "ή", "ί", "ΰ", "α", "β", "γ", "δ", "ε", "ζ", "η", "θ",
  "ι", "κ", "λ", "μ", "ν", "ξ", "ο", "π", "ρ", "ς", "σ", "τ", "υ", "φ", "χ",
  "ψ", "ω", "ϊ", "ϋ", "ό", "ύ", "ώ", "Ϗ", "ϐ", "ϑ", "ϒ", "ϓ", "ϔ", "ϕ", "ϖ",
  "ϗ", "Ϙ", "ϙ", "Ϛ", "ϛ", "Ϝ", "ϝ", "Ϟ", "ϟ", "Ϡ", "ϡ", "Ϣ", "ϣ", "Ϥ", "ϥ",
  "Ϧ", "ϧ", "Ϩ", "ϩ", "Ϫ", "ϫ", "Ϭ", "ϭ", "Ϯ", "ϯ", "ϰ", "ϱ", "ϲ", "ϳ", "ϴ",
  "ϵ", "Ϸ", "ϸ", "Ϲ", "Ϻ", "ϻ", "ϼ", "Ͻ", "Ͼ", "Ͽ", "Ẁ", "ẁ", "Ẃ", "ẃ", "Ẅ",
  "ẅ", "Ẇ", "ẇ", "Ẉ", "ẉ", "Ẋ", "ẋ", "Ẍ", "ẍ", "Ẏ", "ẏ", "Ẑ", "ẑ", "Ẓ", "ẓ",
  "Ẕ", "ẕ", "ẖ", "ẗ", "ẘ", "ẙ", "ẚ", "ẛ", "ẜ", "ẝ", "ẞ", "ẟ", "Ạ", "ạ", "Ả",
  "ả", "Ấ", "ấ", "Ầ", "ầ", "Ẩ", "ẩ", "Ẫ", "ẫ", "Ậ", "ậ", "Ắ", "ắ", "Ằ", "ằ",
  "Ẳ", "ẳ", "Ẵ", "ẵ", "Ặ", "ặ", "Ẹ", "ẹ", "Ẻ", "ẻ", "Ẽ", "ẽ", "Ế", "ế", "Ề",
  "ề", "Ể", "ể", "Ễ", "ễ", "Ệ", "ệ", "Ỉ", "ỉ", "Ị", "ị", "Ọ", "ọ", "Ỏ", "ỏ",
  "Ố", "ố", "Ồ", "ồ", "Ổ", "ổ", "Ỗ", "ỗ", "Ộ", "ộ", "Ớ", "ớ", "Ờ", "ờ", "Ở",
  "ở", "Ỡ", "ỡ", "Ợ", "ợ", "Ụ", "ụ", "Ủ", "ủ", "Ứ", "ứ", "Ừ", "ừ", "Ử", "ử",
  "Ữ", "ữ", "Ự", "ự", "Ỳ", "ỳ", "Ỵ", "ỵ", "Ỷ", "ỷ", "Ỹ", "ỹ", "Ỻ", "ỻ", "Ỽ",
  "ỽ", "Ỿ", "ỿ"
}

\* str.isalpha
AlphaRanges == {
  <<170, 170>>, <<181, 181>>, <<186, 186>>, <<192, 214>>, <<216, 246>>,
  <<248, 705>>, <<710, 721>>, <<736, 740>>, <<748, 748>>, <<750, 750>>,
  <<880, 884>>, <<886, 887>>, <<890, 893>>, <<895, 895>>, <<902, 902>>,
  <<904, 906>>, <<908, 908>>, <<910, 929>>, <<931, 1013>>, <<1015, 1153>>,
  <<1162, 1327>>, <<1329, 1366>>, <<1369, 1369>>, <<1376, 1416>>,
  <<1488, 1514>>, <<1519, 1522>>, <<1568, 1610>>, <<1646, 1647>>,
  <<1649, 1747>>, <<1749, 1749>>, <<1765, 1766>>, <<1774, 1775>>,
  <<1786, 1788>>, <<1791, 1791>>, <<1808, 1808>>, <<1810, 1839>>,
  <<1869, 1957>>, <<1969, 1969>>, <<1994, 2026>>, <<2036, 2037>>,
  <<2042, 2042>>, <<2048, 2069>>, <<2074, 2074>>, <<2084, 2084>>,
  <<2088, 2088>>, <<2112, 2136>>, <<2144, 2154>>, <<2160, 2183>>,
  <<2185, 2190>>, <<2208, 2249>>, <<2308, 2361>>, <<2365, 2365>>,
  <<2384, 2384>>, <<2392, 2401>>, <<2417, 2432>>, <<2437, 2444>>,
  <<2447, 2448>>, <<2451, 2472>>, <<2474, 2480>>, <<2482, 2482>>,
  <<2486, 2489>>, <<2493, 2493>>, <<2510, 2510>>, <<2524, 2525>>,
  <<2527, 2529>>, <<2544, 2545>>, <<2556, 2556>>, <<2565, 2570>>,
  <<2575, 2576>>, <<2579, 2600>>, <<2602, 2608>>, <<2610, 2611>>,
  <<2613, 2614>>, <<2616, 2617>>, <<2649, 2652>>, <<2654, 2654>>,
  <<2674, 2676>>, <<2693, 2701>>, <<2703, 2705>>, <<2707, 2728>>,
  <<2730, 2736>>, <<2738, 2739>>, <<2741, 2745>>, <<2749, 2749>>,
  <<2768, 2768>>, <<2784, 2785>>, <<2809, 2809>>, <<2821, 2828>>,
  <<2831, 2832>>, <<2835, 2856>>, <<2858, 2864>>, <<2866, 2867>>,
  <<2869, 2873>>, <<2877, 2877>>, <<2908, 2909>>, <<2911, 2913>>,
  <<2929, 2929>>, <<2947, 2947>>, <<2949, 2954>>, <<2958, 2960>>,
  <<2962, 2965>>, <<2969, 2970>>, <<2972, 2972>>, <<2974, 2975>>,
  <<2979, 2980>>, <<2984, 2986>>, <<2990, 3001>>, <<3024, 3024>>,
  <<3077, 3084>>, <<3086, 3088>>, <<3090, 3112>>, <<3114, 3129>>,
  <<3133, 3133>>, <<3160, 3162>>, <<3165, 3165>>, <<3168, 3169>>,
  <<3200, 3200>>, <<3205, 3212>>, <<3214, 3216>>, <<3218, 3240>>,
  <<3242, 3251>>, <<3253, 3257>>, <<3261, 3261>>, <<3293, 3294>>,
  <<3296, 3297>>, <<3313, 3314>>, <<3332, 3340>>, <<3342, 3344>>,
  <<3346, 3386>>, <<3389, 3389>>, <<3406, 3406>>, <<3412, 3414>>,
  <<3423, 3425>>, <<3450, 3455>>, <<3461, 3478>>, <<3482, 3505>>,
  <<3507, 3515>>, <<3517, 3517>>, <<3520, 3526>>, <<3585, 3632>>,
  <<3634, 3635>>, <<3648, 3654>>, <<3713, 3714>>, <<3716, 3716>>,
  <<3718, 3722>>, <<3724, 3747>>, <<3749, 3749>>, <<3751, 3760>>,
  <<3762, 3763>>, <<3773, 3773>>, <<3776, 3780>>, <<3782, 3782>>,
  <<3804, 3807>>, <<3840, 3840>>, <<3904, 3911>>, <<3913, 3948>>,
  <<3976, 3980>>, <<4096, 4138>>, <<4159, 4159>>, <<4176, 4181>>,
  <<4186, 4189>>, <<4193, 4193>>, <<4197, 4198>>, <<4206, 4208>>,
  <<4213, 4225>>, <<4238, 4238>>, <<4256, 4293>>, <<4295, 4295>>,
  <<4301, 4301>>, <<4304, 4346>>, <<4348, 4680>>, <<4682, 4685>>,
  <<4688, 4694>>, <<4696, 4696>>, <<4698, 4701>>, <<4704, 4744>>,
  <<4746, 4749>>, <<4752, 4784>>, <<4786, 4789>>, <<4792, 4798>>,
  <<4800, 4800>>, <<4802, 4805>>, <<4808, 4822>>, <<4824, 4880>>,
  <<4882, 4885>>, <<4888, 4954>>, <<4992, 5007>>, <<5024, 5109>>,
  <<5112, 5117>>, <<5121, 5740>>, <<5743, 5759>>, <<5761, 5786>>,
  <<5792, 5866>>, <<5873, 5880>>, <<5888, 5905>>, <<5919, 5937>>,
  <<5952, 5969>>, <<5984, 5996>>, <<5998, 6000>>, <<6016, 6067>>,
  <<6103, 6103>>, <<6108, 6108>>, <<6176, 6264>>, <<6272, 6276>>,
  <<6279, 6312>>, <<6314, 6314>>, <<6320, 6389>>, <<6400, 6430>>,
  <<6480, 6509>>, <<6512, 6516>>, <<6528, 6571>>, <<6576, 6601>>,
  <<6656, 6678>>, <<6688, 6740>>, <<6823, 6823>>, <<6917, 6963>>,
  <<6981, 6988>>, <<7043, 7072>>, <<7086, 7087>>, <<7098, 7141>>,
  <<7168, 7203>>, <<7245, 7247>>, <<7258, 7293>>, <<7296, 7304>>,
  <<7312, 7354>>, <<7357, 7359>>, <<7401, 7404>>, <<7406, 7411>>,
  <<7413, 7414>>, <<7418, 7418>>, <<7424, 7615>>, <<7680, 7957>>,
  <<7960, 7965>>, <<7968, 8005>>, <<8008, 8013>>, <<8016, 8023>>,
  <<8025, 8025>>, <<8027, 8027>>, <<8029, 8029>>, <<8031, 8061>>,
  <<8064, 8116>>, <<8118, 8124>>, <<8126, 8126>>, <<8130, 8132>>,
  <<8134, 8140>>, <<8144, 8147>>, <<8150, 8155>>, <<8160, 8172>>,
  <<8178, 8180>>, <<8182, 8188>>, <<8305, 8305>>, <<8319, 8319>>,
  <<8336, 8348>>, <<8450, 8450>>, <<8455, 8455>>, <<8458, 8467>>,
  <<8469, 8469>>, <<8473, 8477>>, <<8484, 8484>>, <<8486, 8486>>,
  <<8488, 8488>>, <<8490, 8493>>, <<8495, 8505>>, <<8508, 8511>>,
  <<8517, 8521>>, <<8526, 8526>>, <<8579, 8580>>, <<11264, 11492>>,
  <<11499, 11502>>, <<11506, 11507>>, <<11520, 11557>>, <<11559, 11559>>,
  <<11565, 11565>>, <<11568, 11623>>, <<11631, 11631>>, <<11648, 11670>>,
  <<11680, 11686>>, <<11688, 11694>>, <<11696, 11702>>, <<11704, 11710>>,
  <<11712, 11718>>, <<11720, 11726>>, <<11728, 11734>>, <<11736, 11742>>,
  <<11823, 11823>>, <<12293, 12294>>, <<12337, 12341>>, <<12347, 12348>>,
  <<12353, 12438>>, <<12445, 12447>>, <<12449, 12538>>, <<12540, 12543>>,
  <<12549, 12591>>, <<12593, 12686>>, <<12704, 12735>>, <<12784, 12799>>,
  <<13312, 19903>>, <<19968, 42124>>, <<42192, 42237>>, <<42240, 42508>>,
  <<42512, 42527>>, <<42538, 42539>>, <<42560, 42606>>, <<42623, 42653>>,
  <<42656, 42725>>, <<42775, 42783>>, <<42786, 42888>>, <<42891, 42954>>,
  <<42960, 42961>>, <<42963, 42963>>, <<42965, 42969>>, <<42994, 43009>>,
  <<43011, 43013>>, <<43015, 43018>>, <<43020, 43042>>, <<43072, 43123>>,
  <<43138, 43187>>, <<43250, 43255>>, <<43259, 43259>>, <<43261, 43262>>,
  <<43274, 43301>>, <<43312, 43334>>, <<43360, 43388>>, <<43396, 43442>>,
  <<43471, 43471>>, <<43488, 43492>>, <<43494, 43503>>, <<43514, 43518>>,
  <<43520, 43560>>, <<43584, 43586>>, <<43588, 43595>>, <<43616, 43638>>,
  <<43642, 43642>>, <<43646, 43695>>, <<43697, 43697>>, <<43701, 43702>>,
  <<43705, 43709>>, <<43712, 43712>>, <<43714, 43714>>, <<43739, 43741>>,
  <<43744, 43754>>, <<43762, 43764>>, <<43777, 43782>>, <<43785, 43790>>,
  <<43793, 43798>>, <<43808, 43814>>, <<43816, 43822>>, <<43824, 43866>>,
  <<43868, 43881>>, <<43888, 44002>>, <<44032, 55203>>, <<55216, 55238>>,
  <<55243, 55291>>, <<63744, 64109>>, <<64112, 64217>>, <<64256, 64262>>,
  <<64275, 64279>>, <<64285, 64285>>, <<64287, 64296>>, <<64298, 64310>>,
  <<64312, 64316>>, <<64318, 64318>>, <<64320, 64321>>, <<64323, 64324>>,
  <<64326, 64433>>, <<64467, 64829>>, <<64848, 64911>>, <<64914, 64967>>,
  <<65008, 65019>>, <<65136, 65140>>, <<65142, 65276>>, <<65313, 65338>>,
  <<65345, 65370>>, <<65382, 65470>>, <<65474, 65479>>, <<65482, 65487>>,
  <<65490, 65495>>, <<65498, 65500>>, <<65536, 65547>>, <<65549, 65574>>,
  <<65576, 65594>>, <<65596, 65597>>, <<65599, 65613>>, <<65616, 65629>>,
  <<65664, 65786>>, <<66176, 66204>>, <<66208, 66256>>, <<66304, 66335>>,
  <<66349, 66368>>, <<66370, 66377>>, <<66384, 66421>>, <<66432, 66461>>,
  <<66464, 66499>>, <<66504, 66511>>, <<66560, 66717>>, <<66736, 66771>>,
  <<66776, 66811>>, <<66816, 66855>>, <<66864, 66915>>, <<66928, 66938>>,
  <<66940, 66954>>, <<66956, 66962>>, <<66964, 66965>>, <<66967, 66977>>,
  <<66979, 66993>>, <<66995, 67001>>, <<67003, 67004>>, <<67072, 67382>>,
  <<67392, 67413>>, <<67424, 67431>>, <<67456, 67461>>, <<67463, 67504>>,
  <<67506, 67514>>, <<67584, 67589>>, <<67592, 67592>>, <<67594, 67637>>,
  <<67639, 67640>>, <<67644, 67644>>, <<67647, 67669>>, <<67680, 67702>>,
  <<67712, 67742>>, <<67808, 67826>>, <<67828, 67829>>, <<67840, 67861>>,
  <<67872, 67897>>, <<67968, 68023>>, <<68030, 68031>>, <<68096, 68096>>,
  <<68112, 68115>>, <<68117, 68119>>, <<68121, 68149>>, <<68192, 68220>>,
  <<68224, 68252>>, <<68288, 68295>>, <<68297, 68324>>, <<68352, 68405>>,
  <<68416, 68437>>, <<68448, 68466>>, <<68480, 68497>>, <<68608, 68680>>,
  <<68736, 68786>>, <<68800, 68850>>, <<68864, 68899>>, <<69248, 69289>>,
  <<69296, 69297>>, <<69376, 69404>>, <<69415, 69415>>, <<69424, 69445>>,
  <<69488, 69505>>, <<69552, 69572>>, <<69600, 69622>>, <<69635, 69687>>,
  <<69745, 69746>>, <<69749, 69749>>, <<69763, 69807>>, <<69840, 69864>>,
  <<69891, 69926>>, <<69956, 69956>>, <<69959, 69959>>, <<69968, 70002>>,
  <<70006, 70006>>, <<70019, 70066>>, <<70081, 70084>>, <<70106, 70106>>,
  <<70108, 70108>>, <<70144, 70161>>, <<70163, 70187>>, <<70272, 70278>>,
  <<70280, 70280>>, <<70282, 70285>>, <<70287, 70301>>, <<70303, 70312>>,
  <<70320, 70366>>, <<70405, 70412>>, <<70415, 70416>>, <<70419, 70440>>,
  <<70442, 70448>>, <<70450, 70451>>, <<70453, 70457>>, <<70461, 70461>>,
  <<70480, 70480>>, <<70493, 70497>>, <<70656, 70708>>, <<70727, 70730>>,
  <<70751, 70753>>, <<70784, 70831>>, <<70852, 70853>>, <<70855, 70855>>,
  <<71040, 71086>>, <<71128, 71131>>, <<71168, 71215>>, <<71236, 71236>>,
  <<71296, 71338>>, <<71352, 71352>>, <<71424, 71450>>, <<71488, 71494>>,
  <<71680, 71723>>, <<71840, 71903>>, <<71935, 71942>>, <<71945, 71945>>,
  <<71948, 71955>>, <<71957, 71958>>, <<71960, 71983>>, <<71999, 71999>>,
  <<72001, 72001>>, <<72096, 72103>>, <<72106, 72144>>, <<72161, 72161>>,
  <<72163, 72163>>, <<72192, 72192>>, <<72203, 72242>>, <<72250, 72250>>,
  <<72272, 72272>>, <<72284, 72329>>, <<72349, 72349>>, <<72368, 72440>>,
  <<72704, 72712>>, <<72714, 72750>>, <<72768, 72768>>, <<72818, 72847>>,
  <<72960, 72966>>, <<72968, 72969>>, <<72971, 73008>>, <<73030, 73030>>,
  <<73056, 73061>>, <<73063, 73064>>, <<73066, 73097>>, <<73112, 73112>>,
  <<73440, 73458>>, <<73648, 73648>>, <<73728, 74649>>, <<74880, 75075>>,
  <<77712, 77808>>, <<77824, 78894>>, <<82944, 83526>>, <<92160, 92728>>,
  <<92736, 92766>>, <<92784, 92862>>, <<92880, 92909>>, <<92928, 92975>>,
  <<92992, 92995>>, <<93027, 93047>>, <<93053, 93071>>, <<93760, 93823>>,
  <<93952, 94026>>, <<94032, 94032>>, <<94099, 94111>>, <<94176, 94177>>,
  <<94179, 94179>>, <<94208, 100343>>, <<100352, 101589>>, <<101632, 101640>>,
  <<110576, 110579>>, <<110581, 110587>>, <<110589, 110590>>,
  <<110592, 110882>>, <<110928, 110930>>, <<110948, 110951>>,
  <<110960, 111355>>, <<113664, 113770>>, <<113776, 113788>>,
  <<113792, 113800>>, <<113808, 113817>>, <<119808, 119892>>,
  <<119894, 119964>>, <<119966, 119967>>, <<119970, 119970>>,
  <<119973, 119974>>, <<119977, 119980>>, <<119982, 119993>>,
  <<119995, 119995>>, <<119997, 120003>>, <<120005, 120069>>,
  <<120071, 120074>>, <<120077, 120084>>, <<120086, 120092>>,
  <<120094, 120121>>, <<120123, 120126>>, <<120128, 120132>>,
  <<120134, 120134>>, <<120138, 120144>>, <<120146, 120485>>,
  <<120488, 120512>>, <<120514, 120538>>, <<120540, 120570>>,
  <<120572, 120596>>, <<120598, 120628>>, <<120630, 120654>>,
  <<120656, 120686>>, <<120688, 120712>>, <<120714, 120744>>,
  <<120746, 120770>>, <<120772, 120779>>, <<122624, 122654>>,
  <<123136, 123180>>, <<123191, 123197>>, <<123214, 123214>>,
  <<123536, 123565>>, <<123584, 123627>>, <<124896, 124902>>,
  <<124904, 124907>>, <<124909, 124910>>, <<124912, 124926>>,
  <<124928, 125124>>, <<125184, 125251>>, <<125259, 125259>>,
  <<126464, 126467>>, <<126469, 126495>>, <<126497, 126498>>,
  <<126500, 126500>>, <<126503, 126503>>, <<126505, 126514>>,
  <<126516, 126519>>, <<126521, 126521>>, <<126523, 126523>>,
  <<126530, 126530>>, <<126535, 126535>>, <<126537, 126537>>,
  <<126539, 126539>>, <<126541, 126543>>, <<126545, 126546>>,
  <<126548, 126548>>, <<126551, 126551>>, <<126553, 126553>>,
  <<126555, 126555>>, <<126557, 126557>>, <<126559, 126559>>,
  <<126561, 126562>>, <<126564, 126564>>, <<126567, 126570>>,
  <<126572, 126578>>, <<126580, 126583>>, <<126585, 126588>>,
  <<126590, 126590>>, <<126592, 126601>>, <<126603, 126619>>,
  <<126625, 126627>>, <<126629, 126633>>, <<126635, 126651>>,
  <<131072, 173791>>, <<173824, 177976>>, <<177984, 178205>>,
  <<178208, 183969>>, <<183984, 191456>>, <<194560, 195101>>,
  <<196608, 201546>>
}

Letters == AsciiLetters \cup WrittenLetters \cup Names(AlphaRanges)

\* str.isspace without the five characters written " ", "\t", "\n", "\r", "\f"
SpaceRanges == {
  <<11, 11>>, <<28, 31>>, <<133, 133>>, <<160, 160>>, <<5760, 5760>>,
  <<8192, 8202>>, <<8232, 8233>>, <<8239, 8239>>, <<8287, 8287>>,
  <<12288, 12288>>
}

\* re \s, and what str.strip() strips; the sixth character written
\* here is U+00A0 NO-BREAK SPACE
Whitespace == {" ", "\t", "\n", "\r", "\f", " "} \cup Names(SpaceRanges)

isalpha(c) == c \in Letters

\* str.isdigit is wider than \d: it holds of superscript digits too
isdigit(c) == c \in Digits

IsSpace(c) == c \in Whitespace

\* str.isalnum: isalpha or isdecimal or isdigit or isnumeric
isalnum(c) == isalpha(c) \/ isdigit(c) \/ c \in Numerics

\* re \w: alphanumeric (str.isalnum) or underscore
IsWord(c) == isalnum(c) \/ c = "_"

\* the decimal digits of value d
DigitsOfValue == [d \in 0..9 |-> {DigitChar(d)} \cup {HexName(n) : n \in UNION {{m \in r[1]..r[2] : (m - r[1]) % 10 = d} : r \in DecimalRanges}}]

\* the value int() gives a decimal digit
DigitValue(c) == CHOOSE d \in 0..9 : c \in DigitsOfValue[d]

\* ------------------------------------------------------------------------
\* Body applied to the value of v, v being computed once (a local variable)
Bind(v, Body(_)) == CHOOSE y \in {Body(x) : x \in {v}} : TRUE

\* ------------------------------------------------------------------------
\* Sequence helpers: str.join, slicing, str.lstrip, str.strip, str.replace
RECURSIVE Join(_, _)
Join(parts, sep) == IF parts = <<>> THEN <<>> ELSE IF Len(parts) = 1 THEN parts[1] ELSE parts[1] \o sep \o Join(Tail(parts), sep)

Slice(s, from, to) == IF to < from THEN <<>> ELSE SubSeq(s, from, to)

RECURSIVE lstrip0(_)
lstrip0(s) == IF s # <<>> /\ s[1] = "0" THEN lstrip0(Tail(s)) ELSE s

RECURSIVE lstripWs(_, _)
lstripWs(s, spaces) == IF s # <<>> /\ s[1] \in spaces THEN lstripWs(Tail(s), spaces) ELSE s

RECURSIVE rstripWs(_, _)
rstripWs(s, spaces) == IF s # <<>> /\ s[Len(s)] \in spaces THEN rstripWs(Slice(s, 1, Len(s) - 1), spaces) ELSE s

strip(s) == rstripWs(lstripWs(s, Whitespace), Whitespace)

replace(s, old, new) == [i \in 1..Len(s) |-> IF s[i] = old THEN new ELSE s[i]]

\* ------------------------------------------------------------------------
\* Lexical tables (__init__)
SP == <<" ">>

w_khong == <<"k", "h", "ô", "n", "g">>
w_mot == <<"m", "ộ", "t">>
w_hai == <<"h", "a", "i">>
w_ba == <<"b", "a">>
w_bon == <<"b", "ố", "n">>
w_nam == <<"n", "U+0103", "m">>
w_sau == <<"s", "á", "u">>
w_bay == <<"b", "ả", "y">>
w_tam == <<"t", "á", "m">>
w_chin == <<"c", "h", "í", "n">>
w_muoi == <<"m", "ư", "ờ", "i">>
w_muoi_tens == <<"m", "ư", "ơ", "i">>
w_tram == <<"t", "r", "U+0103", "m">>
w_le == <<"l", "ẻ">>
w_mot_tens == <<"m", "ố", "t">>
w_tu == <<"t", "ư">>
w_lam == <<"l", "U+0103", "m">>
w_nghin == <<"n", "g", "h", "ì", "n">>
w_trieu == <<"t", "r", "i", "ệ", "u">>
w_ty == <<"t", "ỷ">>
w_ngay == <<"n", "g", "à", "y">>
w_thang == <<"t", "h", "á", "n", "g">>
w_gio == <<"g", "i", "ờ">>
w_phut == <<"p", "h", "ú", "t">>
w_giay == <<"g", "i", "â", "y">>
w_phay == <<"p", "h", "ẩ", "y">>

\* numbers_dict, keys '0'..'9' (its key '10' is two characters and is never looked up)
numbers_dict == [c \in AsciiDigits |-> CASE c = "0" -> w_khong [] c = "1" -> w_mot [] c = "2" -> w_hai [] c = "3" -> w_ba [] c = "4" -> w_bon [] c = "5" -> w_nam [] c = "6" -> w_sau [] c = "7" -> w_bay [] c = "8" -> w_tam [] c = "9" -> w_chin]

\* units, indexed from 1 here (units[i] of the source is units[i + 1])
units == << <<>>, w_nghin, w_trieu, w_ty, w_nghin \o SP \o w_ty, w_trieu \o SP \o w_ty, w_ty \o SP \o w_ty >>

MonthKeys == {<<"0", "1">>, <<"1">>, <<"0", "2">>, <<"2">>, <<"0", "3">>, <<"3">>, <<"0", "4">>, <<"4">>, <<"0", "5">>, <<"5">>, <<"0", "6">>, <<"6">>, <<"0", "7">>, <<"7">>, <<"0", "8">>, <<"8">>, <<"0", "9">>, <<"9">>, <<"1", "0">>, <<"1", "1">>, <<"1", "2">>}

month_names == [k \in MonthKeys |-> CASE k = <<"1", "0">> -> w_muoi [] k = <<"1", "1">> -> w_muoi \o SP \o w_mot [] k = <<"1", "2">> -> w_muoi \o SP \o w_hai [] k[Len(k)] = "4" -> w_tu [] OTHER -> numbers_dict[k[Len(k)]]]

\* ------------------------------------------------------------------------
\* variant: the tens-place forms (mot, tu, lam) forgotten
C4_Mutant_single_digit(digit, is_tens_place) == numbers_dict[DigitChar(digit)]

\* _convert_single_digit(digit, is_tens_place)
_convert_single_digit(digit, is_tens_place) == IF is_tens_place THEN (IF digit = 1 THEN w_mot_tens ELSE IF digit = 4 THEN w_tu ELSE IF digit = 5 THEN w_lam ELSE numbers_dict[DigitChar(digit)]) ELSE numbers_dict[DigitChar(digit)]

\* _convert_small_number(num); a num outside 0..999 falls through every branch
Hundreds(num) == numbers_dict[DigitChar(num \div 100)] \o SP \o w_tram

_convert_small_number(num) ==
  IF num = 0 THEN numbers_dict["0"]
  ELSE IF 1 <= num /\ num <= 9 THEN numbers_dict[DigitChar(num)]
  ELSE IF 10 <= num /\ num <= 19 THEN
    (IF num = 10 THEN w_muoi ELSE w_muoi \o SP \o _convert_single_digit(num % 10, TRUE))
  ELSE IF 20 <= num /\ num <= 99 THEN
    (IF num % 10 = 0 THEN numbers_dict[DigitChar(num \div 10)] \o SP \o w_muoi_tens
     ELSE numbers_dict[DigitChar(num \div 10)] \o SP \o w_muoi_tens \o SP \o _convert_single_digit(num % 10, TRUE))
  ELSE IF 100 <= num /\ num <= 999 THEN
    (LET remainder == num % 100
         tens == remainder \div 10
         ones == remainder % 10
     IN IF remainder = 0 THEN Hundreds(num)
        ELSE IF remainder < 10 THEN Hundreds(num) \o SP \o w_le \o SP \o numbers_dict[DigitChar(remainder)]
        ELSE IF tens = 0 THEN Hundreds(num) \o SP \o w_le \o SP \o numbers_dict[DigitChar(ones)]
        ELSE IF tens = 1 THEN
          (IF ones = 0 THEN Hundreds(num) \o SP \o w_muoi
           ELSE Hundreds(num) \o SP \o w_muoi \o SP \o _convert_single_digit(ones, TRUE))
        ELSE
          (IF ones = 0 THEN Hundreds(num) \o SP \o numbers_dict[DigitChar(tens)] \o SP \o w_muoi_tens
           ELSE Hundreds(num) \o SP \o numbers_dict[DigitChar(tens)] \o SP \o w_muoi_tens \o SP \o _convert_single_digit(ones, TRUE)))
  ELSE PyNone

\* ------------------------------------------------------------------------
\* int(number_str): surrounding whitespace is ignored, a sign is allowed, and
\* the digits (any decimal digit) may be separated by single underscores.
\* The whitespace int() ignores is str.isspace without the separators U+001C
\* to U+001F.
\* The int is the record [neg, mag]: mag its decimal digits, most significant
\* first, no leading zero (zero is the empty sequence).
IntSpace == Whitespace \ Names({<<28, 31>>})

IntStrip(s) == rstripWs(lstripWs(s, IntSpace), IntSpace)

IntBody(s) == LET t == IntStrip(s) IN IF t # <<>> /\ t[1] \in {"+", "-"} THEN Tail(t) ELSE t

IntParses(s) ==
  LET b == IntBody(s)
  IN /\ b # <<>>
     /\ \A i \in 1..Len(b) : b[i] \in DecimalDigits \/ b[i] = "_"
     /\ b[1] # "_" /\ b[Len(b)] # "_"
     /\ \A i \in 1..(Len(b) - 1) : ~(b[i] = "_" /\ b[i + 1] = "_")

RECURSIVE StripZeroDigits(_)
StripZeroDigits(ds) == IF ds # <<>> /\ ds[1] = 0 THEN StripZeroDigits(Tail(ds)) ELSE ds

IsDecimalDigit(c) == c \in DecimalDigits

IntOf(s) ==
  LET t == IntStrip(s)
      ds == SelectSeq(IntBody(s), IsDecimalDigit)
      mag == StripZeroDigits([i \in 1..Len(ds) |-> DigitValue(ds[i])])
  IN [neg |-> (t[1] = "-" /\ mag # <<>>), mag |-> mag]

IsZero(num) == num.mag = <<>>

\* num < 1000
Lt1000(num) == num.neg \/ Len(num.mag) <= 3

RECURSIVE MagValue(_)
MagValue(ds) == IF ds = <<>> THEN 0 ELSE 10 * MagValue(Slice(ds, 1, Len(ds) - 1)) + ds[Len(ds)]

\* the machine integer of an int that has at most 9 digits
SmallInt(num) == IF num.neg THEN 0 - MagValue(num.mag) ELSE MagValue(num.mag)

\* temp % 1000 and temp // 1000 on the decimal digits of a non-negative int
Mod1000(mag) == MagValue(Slice(mag, IF Len(mag) > 3 THEN Len(mag) - 2 ELSE 1, Len(mag)))

Div1000(mag) == Slice(mag, 1, Len(mag) - 3)

\* the while loop of _convert_large_number_properly: groups, least significant first
RECURSIVE SplitGroups(_)
SplitGroups(temp) == IF temp = <<>> THEN <<>> ELSE <<Mod1000(temp)>> \o SplitGroups(Div1000(temp))

\* the text of group i (0-based): the group, and its unit above the ones group
GroupText(groups, i) == _convert_small_number(groups[i + 1]) \o (IF i > 0 /\ i < Len(units) THEN SP \o units[i + 1] ELSE <<>>)

\* variant: a zero group above the ones group is rendered, not skipped
RECURSIVE C3_MutantRenderGroups(_, _)
C3_MutantRenderGroups(groups, i) ==
  IF i < 0 THEN <<>>
  ELSE IF groups[i + 1] = 0 /\ i = 0 THEN <<>>
  ELSE <<GroupText(groups, i)>> \o C3_MutantRenderGroups(groups, i - 1)

C3_Mutant_large_number(num) == LET groups == IF num.neg THEN <<>> ELSE SplitGroups(num.mag) IN Join(C3_MutantRenderGroups(groups, Len(groups) - 1), SP)

\* the while loop of _convert_large_number_properly runs for temp > 0 only,
\* so a negative num has no group; the for loop from index i (0-based) down
\* to 0: the list `result`
RECURSIVE RenderGroups(_, _)
RenderGroups(groups, i) ==
  IF i < 0 THEN <<>>
  ELSE IF groups[i + 1] = 0 /\ i # 0 THEN RenderGroups(groups, i - 1)
  ELSE IF groups[i + 1] # 0 THEN <<GroupText(groups, i)>> \o RenderGroups(groups, i - 1)
  ELSE RenderGroups(groups, i - 1)

_convert_large_number_properly(num) == IF IsZero(num) THEN numbers_dict["0"] ELSE LET groups == IF num.neg THEN <<>> ELSE SplitGroups(num.mag) IN Join(RenderGroups(groups, Len(groups) - 1), SP)

\* _read_number_by_digits(number_str): KeyError on a character that is no key
_read_number_by_digits(number_str) == IF \E i \in 1..Len(number_str) : number_str[i] \notin DOMAIN numbers_dict THEN KeyError ELSE Join([i \in 1..Len(number_str) |-> numbers_dict[number_str[i]]], SP)

\* _convert_number(number_str), from `num = int(number_str)` on
ConvertParsed(num) == IF IsZero(num) THEN numbers_dict["0"] ELSE IF Lt1000(num) THEN _convert_small_number(SmallInt(num)) ELSE _convert_large_number_properly(num)

\* _convert_number(number_str), after number_str = number_str.lstrip('0'); the
\* except clause returns the local number_str, which by then is the stripped one
ConvertStripped(stripped) ==
  IF stripped = <<>> THEN numbers_dict["0"]
  ELSE IF Len(stripped) > 18 THEN Bind(_read_number_by_digits(stripped), LAMBDA r : IF r = KeyError THEN stripped ELSE r)
  ELSE IF ~IntParses(stripped) THEN stripped
  ELSE Bind(IntOf(stripped), LAMBDA num : ConvertParsed(num))

_convert_number(number_str) == Bind(lstrip0(number_str), LAMBDA stripped : ConvertStripped(stripped))

\* what an f-string makes of a value
Fmt(v) == IF v = PyNone THEN <<"N", "o", "n", "e">> ELSE v

\* variant: the decimal part read as a number, not digit by digit
C6_Mutant_decimal_number(integer_part, decimal_part) == Fmt(_convert_number(integer_part)) \o SP \o w_phay \o SP \o Fmt(_convert_number(decimal_part))

\* _convert_decimal_number(integer_part, decimal_part); the KeyError of the
\* digit loop is not caught
_convert_decimal_number(integer_part, decimal_part) ==
  IF \E i \in 1..Len(decimal_part) : decimal_part[i] \notin DOMAIN numbers_dict THEN KeyError
  ELSE Fmt(_convert_number(integer_part)) \o SP \o w_phay \o SP \o Join([i \in 1..Len(decimal_part) |-> numbers_dict[decimal_part[i]]], SP)

\* day.lstrip('0') or '0'
StripOrZero(s) == IF lstrip0(s) = <<>> THEN <<"0">> ELSE lstrip0(s)

\* variant: the month read by _convert_number, the month-name table unused
C5_Mutant_date(day, month, year, day_first) == w_ngay \o SP \o Fmt(_convert_number(StripOrZero(day))) \o SP \o w_thang \o SP \o Fmt(_convert_number(StripOrZero(month))) \o SP \o w_nam \o SP \o Fmt(_convert_number(year))

\* _convert_date(day, month, year, day_first)
_convert_date(day, month, year, day_first) ==
  LET day_text == _convert_number(StripOrZero(day))
      month_text == IF StripOrZero(month) \in DOMAIN month_names THEN month_names[StripOrZero(month)] ELSE _convert_number(StripOrZero(month))
      year_text == _convert_number(year)
  IN w_ngay \o SP \o Fmt(day_text) \o SP \o w_thang \o SP \o Fmt(month_text) \o SP \o w_nam \o SP \o Fmt(year_text)

\* _convert_datetime(year, month, day, hour, minute, second)
_convert_datetime(year, month, day, hour, minute, second) ==
  LET date_part == _convert_date(day, month, year, FALSE)
      hour_text == _convert_number(StripOrZero(hour))
      minute_text == _convert_number(StripOrZero(minute))
      second_text == _convert_number(StripOrZero(second))
  IN date_part \o SP \o w_gio \o SP \o Fmt(hour_text) \o SP \o w_phut \o SP \o Fmt(minute_text) \o SP \o w_giay \o SP \o Fmt(second_text)

\* ------------------------------------------------------------------------
\* re.sub.  A pattern is a sequence of elements: a class of characters
\* repeated min..max times, greedy (max 0: no upper limit), or the word
\* boundary \b.  Every element but \b is a group.
Rep(cls, min, max) == [cls |-> cls, min |-> min, max |-> max]

Lit(c) == Rep(c, 1, 1)

WordB == Rep("\\b", 0, 0)

InClass(c, cls) ==
  CASE cls = "\\d" -> c \in DecimalDigits
    [] cls = "\\s" -> IsSpace(c)
    [] cls = "[^\\d\\s]" -> c \notin DecimalDigits /\ ~IsSpace(c)
    [] OTHER -> c = cls

\* \b before position pos of t
AtWordBoundary(t, pos) == (pos > 1 /\ IsWord(t[pos - 1])) # (pos <= Len(t) /\ IsWord(t[pos]))

\* how many characters of class cls stand at pos, up to limit
RECURSIVE RunLength(_, _, _, _)
RunLength(t, pos, cls, limit) == IF limit = 0 \/ pos > Len(t) \/ ~InClass(t[pos], cls) THEN 0 ELSE 1 + RunLength(t, pos + 1, cls, limit - 1)

NoMatch == <<0>>

\* The backtracking match of elements k.. of pat at pos: the position after
\* each of these elements, or NoMatch.  TryCount gives element k n characters,
\* then fewer.
RECURSIVE MatchFrom(_, _, _, _)
RECURSIVE TryCount(_, _, _, _, _)
TryCount(t, pos, pat, k, n) ==
  IF n < pat[k].min THEN NoMatch
  ELSE Bind(MatchFrom(t, pos + n, pat, k + 1), LAMBDA rest : IF rest # NoMatch THEN <<pos + n>> \o rest ELSE TryCount(t, pos, pat, k, n - 1))

MatchFrom(t, pos, pat, k) ==
  IF k > Len(pat) THEN <<>>
  ELSE IF pat[k].cls = "\\b" THEN
    (IF ~AtWordBoundary(t, pos) THEN NoMatch
     ELSE Bind(MatchFrom(t, pos, pat, k + 1), LAMBDA rest : IF rest # NoMatch THEN <<pos>> \o rest ELSE NoMatch))
  ELSE Bind(RunLength(t, pos, pat[k].cls, IF pat[k].max = 0 THEN Len(t) ELSE pat[k].max), LAMBDA n : TryCount(t, pos, pat, k, n))

\* group k of a match m that started at pos
Group(t, pos, m, k) == Slice(t, IF k = 1 THEN pos ELSE m[k - 1], m[k] - 1)

D4 == Rep("\\d", 4, 4)

D12 == Rep("\\d", 1, 2)

DPlus == Rep("\\d", 1, 0)

\* the pattern of each pass of normalize
Pattern(pass) ==
  CASE pass = "whitespace" -> <<Rep("\\s", 1, 0)>>
    [] pass = "datetime" -> <<D4, Lit("-"), D12, Lit("-"), D12, Lit(" "), D12, Lit(":"), D12, Lit(":"), D12>>
    [] pass = "slash_date" -> <<D12, Lit("/"), D12, Lit("/"), D4>>
    [] pass = "dash_date" -> <<D12, Lit("-"), D12, Lit("-"), D4>>
    [] pass = "year_first_date" -> <<D4, Lit("-"), D12, Lit("-"), D12>>
    [] pass = "comma_decimal" -> <<WordB, DPlus, Lit(","), DPlus, WordB>>
    [] pass = "dot_decimal" -> <<WordB, DPlus, Lit("."), DPlus, WordB>>
    [] pass = "integer" -> <<WordB, Rep("\\d", 1, 100), WordB>>
    [] pass = "cleanup" -> <<DPlus, Rep("[^\\d\\s]", 1, 1)>>

\* the replacement of each pass for a match m at pos (the lambda of the pass)
Replacement(pass, t, pos, m) ==
  CASE pass = "whitespace" -> SP
    [] pass = "datetime" -> _convert_datetime(Group(t, pos, m, 1), Group(t, pos, m, 3), Group(t, pos, m, 5), Group(t, pos, m, 7), Group(t, pos, m, 9), Group(t, pos, m, 11))
    [] pass \in {"slash_date", "dash_date"} -> _convert_date(Group(t, pos, m, 1), Group(t, pos, m, 3), Group(t, pos, m, 5), TRUE)
    [] pass = "year_first_date" -> _convert_date(Group(t, pos, m, 5), Group(t, pos, m, 3), Group(t, pos, m, 1), FALSE)
    [] pass \in {"comma_decimal", "dot_decimal"} -> _convert_decimal_number(Group(t, pos, m, 2), Group(t, pos, m, 4))
    [] pass = "integer" -> _convert_number(Group(t, pos, m, 2))
    [] pass = "cleanup" -> Group(t, pos, m, 1) \o SP \o Group(t, pos, m, 2)

\* the leftmost position from pos on where the pattern matches, 0 if none
FirstMatch(pass, t, pos) ==
  LET starts == {i \in pos..Len(t) : MatchFrom(t, i, Pattern(pass), 1) # NoMatch}
  IN IF starts = {} THEN 0 ELSE CHOOSE i \in starts : \A j \in starts : i <= j

\* head followed by rest, or the exception either of them is (head's first)
Prepend(head, rest) == Bind(<<head, rest>>, LAMBDA hr : IF IsRaise(hr[1]) THEN hr[1] ELSE IF IsRaise(hr[2]) THEN hr[2] ELSE hr[1] \o hr[2])

\* re.sub(pattern, replacement, t) from position pos on: the text up to the
\* leftmost match, its replacement, then on from its end; an exception of a
\* replacement ends the call
RECURSIVE SubFrom(_, _, _)
SubFrom(pass, t, pos) ==
  Bind(FirstMatch(pass, t, pos), LAMBDA i :
    IF i = 0 THEN Slice(t, pos, Len(t))
    ELSE Bind(MatchFrom(t, i, Pattern(pass), 1), LAMBDA m :
           Prepend(Slice(t, pos, i - 1), Prepend(Replacement(pass, t, i, m), SubFrom(pass, t, m[Len(m)])))))

re_sub(pass, t) == Bind(t, LAMBDA s : SubFrom(pass, s, 1))

\* ------------------------------------------------------------------------
\* _separate_alphanumeric(text): the loop from character i on, current_type
\* being "alpha", "digit" or "None"
CharType(c) == IF isalpha(c) THEN "alpha" ELSE IF isdigit(c) THEN "digit" ELSE "None"

\* variant: a space at every change of character type, punctuation included
RECURSIVE C7_MutantSeparateFrom(_, _, _)
C7_MutantSeparateFrom(t, i, current_type) ==
  IF i > Len(t) THEN <<>>
  ELSE (IF current_type # "None" /\ CharType(t[i]) # current_type THEN SP ELSE <<>>) \o <<t[i]>> \o C7_MutantSeparateFrom(t, i + 1, CharType(t[i]))

C7_Mutant_separate(t) == C7_MutantSeparateFrom(t, 1, "None")

RECURSIVE SeparateFrom(_, _, _)
SeparateFrom(t, i, current_type) ==
  IF i > Len(t) THEN <<>>
  ELSE LET new_type == CharType(t[i])
       IN (IF current_type # "None" /\ new_type # current_type /\ new_type # "None" THEN SP ELSE <<>>) \o <<t[i]>> \o SeparateFrom(t, i + 1, new_type)

_separate_alphanumeric(t) == SeparateFrom(t, 1, "None")

\* ------------------------------------------------------------------------
\* normalize(text): the re.sub calls in the order of the source
Passes == <<"datetime", "slash_date", "dash_date", "year_first_date", "comma_decimal", "dot_decimal", "integer", "cleanup">>

SeparateAndReplace(t) == replace(replace(_separate_alphanumeric(t), "-", " "), "_", " ")

RECURSIVE RunPasses(_, _)
RunPasses(t, k) == IF k > Len(Passes) THEN t ELSE Bind(re_sub(Passes[k], t), LAMBDA r : IF IsRaise(r) THEN r ELSE RunPasses(r, k + 1))

normalize(t) == IF t = <<>> THEN <<>> ELSE Bind(SeparateAndReplace(strip(re_sub("whitespace", t))), LAMBDA s : RunPasses(s, 1))

\* ------------------------------------------------------------------------
\* Inputs
MaxLen == 4
MaxDigits == 2
MaxNumLen == 3
MaxGroups == 6

StringsUpTo(alphabet, n) == UNION {[1..k -> alphabet] : k \in 0..n}

\* texts of normalize: a digit, a decimal digit that is not ASCII, a letter,
\* a space, and the punctuation the passes look at
TextAlphabet == {"1", "U+0663", "a", " ", "-", "_", "."}

ShortTexts == StringsUpTo(TextAlphabet, MaxLen)

\* date and datetime spans, alone and next to a word or a digit
Years == {<<"2", "0", "2", "3">>, <<"1", "0", "0", "5">>}

Months == {<<"0", "1">>, <<"4">>, <<"1", "3">>}

Days == {<<"0", "5">>, <<"1", "5">>}

Hours == {<<"1", "0">>, <<"0">>}

Minutes == {<<"3", "0">>}

Seconds == {<<"0", "0">>, <<"5">>}

Before == {<<>>, <<"a", " ">>, <<"1">>}

After == {<<>>, <<" ", "a">>, <<"5">>}

DatetimeSpan(y, mo, d, h, mi, sec) == y \o <<"-">> \o mo \o <<"-">> \o d \o SP \o h \o <<":">> \o mi \o <<":">> \o sec

DatetimeSpans == {DatetimeSpan(y, mo, d, h, mi, sec) : y \in Years, mo \in Months, d \in Days, h \in Hours, mi \in Minutes, sec \in Seconds}

DateSpans == {d \o <<sep>> \o mo \o <<sep>> \o y : d \in Days, mo \in Months, y \in Years, sep \in {"/", "-"}} \cup {y \o <<"-">> \o mo \o <<"-">> \o d : d \in Days, mo \in Months, y \in Years}

SpanTexts == {b \o span \o a : b \in Before, span \in DatetimeSpans \cup DateSpans, a \in After}

\* decimals: integer part, separator, decimal part
DecimalDigitAlphabet == {"0", "1", "5"}

LongDigits == [i \in 1..19 |-> IF i % 2 = 1 THEN "1" ELSE "0"]

IntegerParts == (StringsUpTo(DecimalDigitAlphabet, MaxDigits) \ {<<>>}) \cup {LongDigits}

DecimalParts == StringsUpTo(DecimalDigitAlphabet, MaxDigits) \ {<<>>}

DecimalTexts == {i \o <<sep>> \o d : i \in IntegerParts, d \in DecimalParts, sep \in {",", "."}} \cup {<<"3", ".", "1", "4">>, <<"3", ",", "1", "4">>}

\* arguments of _convert_number: short strings with signs, spaces, underscores and letters
NumberAlphabet == {"0", "1", "U+0663", "a", " ", "-", "+", "_"}

NumberStrings == StringsUpTo(NumberAlphabet, MaxNumLen)

\* decimal strings of integers >= 1000, by base-1000 groups
LeadGroups == {<<"1">>, <<"2", "1">>, <<"1", "0", "5">>}

LowerGroups == {<<"0", "0", "0">>, <<"0", "0", "5">>, <<"0", "2", "4">>, <<"1", "0", "0">>}

RECURSIVE GroupedStrings(_)
GroupedStrings(n) == IF n = 1 THEN LeadGroups ELSE {s \o g : s \in GroupedStrings(n - 1), g \in LowerGroups}

LargeStrings == UNION {GroupedStrings(n) : n \in 2..MaxGroups}

DateArgs == {<<d, mo, y>> : d \in Days \cup {<<"0", "0">>}, mo \in Months \cup {<<"0", "3">>, <<"1", "2">>}, y \in Years \cup {<<"0", "0", "0", "0">>}}

DatetimeArgs == {<<y, mo, d, h, mi, sec>> : y \in Years, mo \in Months, d \in Days, h \in Hours, mi \in Minutes, sec \in Seconds} \cup {<<<<"2", "0", "2", "3">>, <<"0", "1">>, <<"0", "5">>, <<"1", "0">>, <<"3", "0">>, <<"0", "0">>>>}

\* ------------------------------------------------------------------------
\* normalize as a state machine: pc is the statement to run next, text the
\* local variable, ret the returned value or the exception that left the call
Statements == <<"whitespace", "strip", "separate">> \o Passes \o <<"return">>

StatementAfter(stmt) == Statements[1 + CHOOSE i \in 1..Len(Statements) : Statements[i] = stmt]

InitNormalize(inputs) == input \in inputs /\ pc = "start" /\ text = input /\ ret = <<>>

\* if not text: return ""
Start ==
  /\ pc = "start"
  /\ IF text = <<>> THEN pc' = "done" ELSE pc' = "whitespace"
  /\ UNCHANGED <<input, text, ret>>

\* text = re.sub(pattern, replacement, text), for the pattern at pc
Sub ==
  /\ pc \in {"whitespace"} \cup {Passes[k] : k \in 1..Len(Passes)}
  /\ \E r \in {re_sub(pc, text)} :
       IF IsRaise(r) THEN pc' = "raised" /\ ret' = r /\ text' = text
       ELSE pc' = StatementAfter(pc) /\ text' = r /\ ret' = ret
  /\ UNCHANGED input

\* text = text.strip()
Strip == pc = "strip" /\ pc' = StatementAfter(pc) /\ text' = strip(text) /\ UNCHANGED <<input, ret>>

\* text = self._separate_alphanumeric(text).replace('-', ' ').replace('_', ' ')
Separate == pc = "separate" /\ pc' = StatementAfter(pc) /\ text' = SeparateAndReplace(text) /\ UNCHANGED <<input, ret>>

\* return text
Return == pc = "return" /\ pc' = "done" /\ ret' = text /\ UNCHANGED <<input, text>>

Next ==
  \/ Start
  \/ Sub
  \/ Strip
  \/ Separate
  \/ Return

Init == InitNormalize(ShortTexts)

Spec == Init /\ [][Next]_vars

InitSpans == InitNormalize(SpanTexts)

SpecSpans == InitSpans /\ [][Next]_vars

InitDecimal == InitNormalize(DecimalTexts)

SpecDecimal == InitDecimal /\ [][Next]_vars

\* ------------------------------------------------------------------------
\* The converters called on their own
InitCall(inputs, entry) == input \in inputs /\ pc = entry /\ text = <<>> /\ ret = <<>>

Call_convert_small_number == pc = "call_small" /\ pc' = "returned" /\ ret' = _convert_small_number(input) /\ UNCHANGED <<input, text>>

Call_convert_number == pc = "call_number" /\ pc' = "returned" /\ ret' = _convert_number(input) /\ UNCHANGED <<input, text>>

Call_convert_date == pc = "call_date" /\ pc' = "returned" /\ ret' = _convert_date(input[1], input[2], input[3], TRUE) /\ UNCHANGED <<input, text>>

Call_convert_datetime == pc = "call_datetime" /\ pc' = "returned" /\ ret' = _convert_datetime(input[1], input[2], input[3], input[4], input[5], input[6]) /\ UNCHANGED <<input, text>>

InitSmall == InitCall(0..999, "call_small")

NextSmall == Call_convert_small_number

SpecSmall == InitSmall /\ [][NextSmall]_vars

InitNumber == InitCall(NumberStrings, "call_number")

NextNumber == Call_convert_number

SpecNumber == InitNumber /\ [][NextNumber]_vars

InitLarge == InitCall(LargeStrings, "call_number")

SpecLarge == InitLarge /\ [][NextNumber]_vars

InitDate == InitCall(DateArgs, "call_date") \/ InitCall(DatetimeArgs, "call_datetime")

NextDate == Call_convert_date \/ Call_convert_datetime

SpecDate == InitDate /\ [][NextDate]_vars

\* ------------------------------------------------------------------------
\* Properties
Words(ws) == Join(ws, SP)

Contains(t, sub) == \E i \in 0..(Len(t) - Len(sub)) : SubSeq(t, i + 1, i + Len(sub)) = sub

\* C1: a YYYY-MM-DD HH:MM:SS span of the input is replaced as a whole by the
\* datetime phrase 'ngay <day> thang <month> nam <year> gio <hour> phut
\* <minute> giay <second>' in the text normalize returns
C1_DatetimeSpanReplaced ==
  \A b \in Before, a \in After, y \in Years, mo \in Months, d \in Days, h \in Hours, mi \in Minutes, sec \in Seconds :
    (pc = "done" /\ input = b \o DatetimeSpan(y, mo, d, h, mi, sec) \o a) => Contains(ret, _convert_datetime(y, mo, d, h, mi, sec))

\* C2: normalize never fails: no exception leaves the call, whatever the input
C2_NeverRaises == pc # "raised"

\* the base-1000 groups of a decimal string, most significant first, read off
\* the string: a first group of 1 to 3 digits, then groups of 3
RECURSIVE C3_Chunks(_)
C3_Chunks(s) == IF Len(s) <= 3 THEN <<s>> ELSE <<SubSeq(s, 1, ((Len(s) - 1) % 3) + 1)>> \o C3_Chunks(SubSeq(s, ((Len(s) - 1) % 3) + 2, Len(s)))

C3_ChunkValue(c) == IF Len(c) = 1 THEN DigitValue(c[1]) ELSE IF Len(c) = 2 THEN 10 * DigitValue(c[1]) + DigitValue(c[2]) ELSE 100 * DigitValue(c[1]) + 10 * DigitValue(c[2]) + DigitValue(c[3])

C3_UnitWord(i) == CASE i = 1 -> w_nghin [] i = 2 -> w_trieu [] i = 3 -> w_ty [] i = 4 -> Words(<<w_nghin, w_ty>>) [] i = 5 -> Words(<<w_trieu, w_ty>>)

C3_Item(chunks, j) == IF j = Len(chunks) THEN _convert_small_number(C3_ChunkValue(chunks[j])) ELSE _convert_small_number(C3_ChunkValue(chunks[j])) \o SP \o C3_UnitWord(Len(chunks) - j)

RECURSIVE C3_Items(_, _)
C3_Items(chunks, j) == IF j > Len(chunks) THEN <<>> ELSE (IF C3_ChunkValue(chunks[j]) = 0 THEN <<>> ELSE <<C3_Item(chunks, j)>>) \o C3_Items(chunks, j + 1)

C3_Reference(s) == Words(C3_Items(C3_Chunks(s), 1))

\* C3: for 1000 <= n < 10^18, _convert_number(decimal string of n) is the
\* single-space join, most significant group first, of one item per non-zero
\* base-1000 group (the group's reading, then its unit above the ones group);
\* 'khong' never occurs; '1000000' -> 'mot trieu', '1005' -> 'mot nghin nam'
C3_GroupedSkipsZeroGroups ==
  (pc = "returned" /\ Len(input) >= 4 /\ Len(input) <= 18) =>
    /\ ret = C3_Reference(input)
    /\ ~Contains(ret, w_khong)
    /\ (input = <<"1", "0", "0", "0", "0", "0", "0">> => ret = Words(<<w_mot, w_trieu>>))
    /\ (input = <<"1", "0", "0", "5">> => ret = Words(<<w_mot, w_nghin, w_nam>>))

C3_Witness == pc = "returned" /\ input = <<"2", "1", "0", "0", "0", "0", "2", "4">> /\ ret = Words(<<w_hai, w_muoi_tens, w_mot_tens, w_trieu, w_hai, w_muoi_tens, w_tu>>)

\* the digit word D and the tens-place form T of the reference reading
C4_D(d) == <<w_khong, w_mot, w_hai, w_ba, w_bon, w_nam, w_sau, w_bay, w_tam, w_chin>>[d + 1]

C4_T(d) == IF d = 1 THEN w_mot_tens ELSE IF d = 4 THEN w_tu ELSE IF d = 5 THEN w_lam ELSE C4_D(d)

\* the reading of 10..99: 'muoi' or D(tens) 'muoi', then T(ones) unless ones = 0
C4_TensAndOnes(n) == (IF n < 20 THEN <<w_muoi>> ELSE <<C4_D(n \div 10), w_muoi_tens>>) \o (IF n % 10 = 0 THEN <<>> ELSE <<C4_T(n % 10)>>)

C4_Reference(n) ==
  Words(IF n < 10 THEN <<C4_D(n)>>
        ELSE IF n < 100 THEN C4_TensAndOnes(n)
        ELSE <<C4_D(n \div 100), w_tram>> \o (IF n % 100 = 0 THEN <<>> ELSE IF n % 100 < 10 THEN <<w_le, C4_D(n % 100)>> ELSE C4_TensAndOnes(n % 100)))

\* C4: for n in 0..999, _convert_small_number(n) is the reference reading: the
\* digit word below 10, 'muoi'/'<tens> muoi' with the tens-place form of a
\* non-zero ones digit below 100, '<hundreds> tram' followed by nothing, by
\* 'le <digit>' or by the reading of the remainder above; 15, 21, 24, 105 and
\* 120 read 'muoi lam', 'hai muoi mot', 'hai muoi tu', 'mot tram le nam' and
\* 'mot tram hai muoi'
C4_SmallNumberReading ==
  pc = "returned" =>
    /\ ret = C4_Reference(input)
    /\ (input = 15 => ret = Words(<<w_muoi, w_lam>>))
    /\ (input = 21 => ret = Words(<<w_hai, w_muoi_tens, w_mot_tens>>))
    /\ (input = 24 => ret = Words(<<w_hai, w_muoi_tens, w_tu>>))
    /\ (input = 105 => ret = Words(<<w_mot, w_tram, w_le, w_nam>>))
    /\ (input = 120 => ret = Words(<<w_mot, w_tram, w_hai, w_muoi_tens>>))

C4_Witness == pc = "returned" /\ input = 124 /\ ret = Words(<<w_mot, w_tram, w_hai, w_muoi_tens, w_tu>>)

C5_ExampleDate == <<<<"1", "5">>, <<"0", "3">>, <<"2", "0", "2", "3">>>>

C5_ExampleDatetime == <<<<"2", "0", "2", "3">>, <<"0", "1">>, <<"0", "5">>, <<"1", "0">>, <<"3", "0">>, <<"0", "0">>>>

\* C5 as stated: convertDate('15','03','2023') is 'ngay muoi lam thang ba nam
\* hai nghin khong tram hai muoi ba'
C5_Original == (pc = "returned" /\ input = C5_ExampleDate) => ret = Words(<<w_ngay, w_muoi, w_lam, w_thang, w_ba, w_nam, w_hai, w_nghin, w_khong, w_tram, w_hai, w_muoi_tens, w_ba>>)

\* C5, amended: the Date Composer returns 'ngay <day> thang <month> nam
\* <year>', day and year by the Number Converter and a month of the table by
\* the month-name table; convertDate('15','03','2023') is 'ngay muoi lam thang
\* ba nam hai nghin hai muoi ba', and convertDatetime('2023','01','05','10',
\* '30','00') reads the year the same way
C5_DateComposer ==
  /\ (pc = "returned" /\ Len(input) = 3 /\ StripOrZero(input[2]) \in DOMAIN month_names) =>
       ret = Words(<<w_ngay, _convert_number(input[1]), w_thang, month_names[StripOrZero(input[2])], w_nam, _convert_number(input[3])>>)
  /\ (pc = "returned" /\ input = C5_ExampleDate) =>
       ret = Words(<<w_ngay, w_muoi, w_lam, w_thang, w_ba, w_nam, w_hai, w_nghin, w_hai, w_muoi_tens, w_ba>>)
  /\ (pc = "returned" /\ input = C5_ExampleDatetime) =>
       ret = Words(<<w_ngay, w_nam, w_thang, w_mot, w_nam, w_hai, w_nghin, w_hai, w_muoi_tens, w_ba, w_gio, w_muoi, w_phut, w_ba, w_muoi_tens, w_giay, w_khong>>)

C5_Witness == pc = "returned" /\ input = C5_ExampleDate /\ ret = Words(<<w_ngay, w_muoi, w_lam, w_thang, w_ba, w_nam, w_hai, w_nghin, w_hai, w_muoi_tens, w_ba>>)

\* the integer part, the separator position and the decimal part of i sep d
C6_SepAt(t) == CHOOSE k \in 1..Len(t) : t[k] \in {",", "."}

C6_IntegerPart(t) == SubSeq(t, 1, C6_SepAt(t) - 1)

C6_DecimalPart(t) == SubSeq(t, C6_SepAt(t) + 1, Len(t))

\* C6: for non-empty ASCII digit strings i and d, normalize(i ',' d) and
\* normalize(i '.' d) are _convert_number(i), ' phay ', and the digit word of
\* each character of d in order, joined by single spaces
C6_DecimalDigitByDigit ==
  pc = "done" =>
    /\ ret = _convert_number(C6_IntegerPart(input)) \o SP \o w_phay \o SP \o Words([k \in 1..Len(C6_DecimalPart(input)) |-> C4_D(DigitValue(C6_DecimalPart(input)[k]))])
    /\ (C6_IntegerPart(input) = <<"3">> /\ C6_DecimalPart(input) = <<"1", "4">> => ret = Words(<<w_ba, w_phay, w_mot, w_bon>>))

C6_Witness == pc = "done" /\ input = <<"1", "5", ",", "0", "5">> /\ ret = Words(<<w_muoi, w_lam, w_phay, w_khong, w_nam>>)

NoDigit(t) == \A i \in 1..Len(t) : ~isdigit(t[i])

\* single spaces only, none leading or trailing
WhitespaceCollapsed(t) ==
  /\ \A i \in 1..Len(t) : IsSpace(t[i]) => t[i] = " "
  /\ \A i \in 1..(Len(t) - 1) : ~(IsSpace(t[i]) /\ IsSpace(t[i + 1]))
  /\ t # <<>> => ~IsSpace(t[1]) /\ ~IsSpace(t[Len(t)])

\* C7 as stated: normalize is the identity on every text without digits whose
\* whitespace is collapsed, whatever letters and punctuation it contains
C7_Original == (pc = "done" /\ NoDigit(input) /\ WhitespaceCollapsed(input)) => ret = input

\* C7, amended: normalize is the identity on every text without digits, hyphens
\* and underscores whose whitespace is collapsed
C7_IdentityOnNonNumeric == (pc = "done" /\ NoDigit(input) /\ WhitespaceCollapsed(input) /\ \A i \in 1..Len(input) : input[i] \notin {"-", "_"}) => ret = input

C7_Witness == pc = "done" /\ input = <<"a", ".", " ", "a">> /\ ret = input

\* C8: the text normalize returns has no two adjacent whitespace characters
\* and neither starts nor ends with one
C8_OutputCollapsed ==
  pc = "done" =>
    /\ \A i \in 1..(Len(ret) - 1) : ~(IsSpace(ret[i]) /\ IsSpace(ret[i + 1]))
    /\ ret # <<>> => ~IsSpace(ret[1]) /\ ~IsSpace(ret[Len(ret)])

\* C9: _convert_number returns a string that is not a pure digit string
\* exactly as it was passed in
C9_ReturnsArgument == (pc = "returned" /\ \E i \in 1..Len(input) : input[i] \notin AsciiDigits) => ret = input

\* C10: the text normalize returns for an ASCII input contains no digit
C10_NoDigitLeft == pc = "done" => \A i \in 1..Len(ret) : ret[i] \notin AsciiDigits

====
